---------------------------- MODULE Spec2Model ----------------------------
(***************************************************************************)
(* Model of src/main.py (Monad Spin automation).                           *)
(*                                                                         *)
(* main and the coroutines it awaits (navigate_to_monad_spin,               *)
(* switch_to_monad_testnet, close_modal, parse_remaining_spins,            *)
(* perform_spins, process_spin_result, confirm_transaction) run as one     *)
(* cooperative task.  Every `await` is a suspension point; the             *)
(* signal handler (main.signal_handler) runs on the event loop and can set *)
(* shutdown_event only while the coroutine is suspended.  The value of pc  *)
(* names the await the coroutine is suspended on; an action completes that *)
(* await (with success or with an exception) and runs the synchronous code *)
(* up to the next await.  Consecutive awaits with no read of the shutdown  *)
(* event between them are merged into one action.                          *)
(*                                                                         *)
(* Text is a sequence of one-character strings.  Amounts are exact         *)
(* decimals [m, e] standing for m * 10^(-e) (the code uses binary floats;  *)
(* rounding error of float addition is not modelled).                      *)
(***************************************************************************)
EXTENDS Integers, Sequences, FiniteSets, TLC

VARIABLES
    pc,              \* the await perform_spins is suspended on / control point
    shutdown_event,  \* asyncio.Event, set by the signal handler, never cleared
    total_spins,     \* the spin budget (argument of perform_spins)
    it_next,         \* next value the iterator of range(total_spins) yields
    spin_iteration,  \* the loop variable of perform_spins
    wins,            \* perform_spins.wins
    losses,          \* perform_spins.losses
    total_winnings,  \* perform_spins.total_winnings (dict currency -> amount)
    psr_wins,        \* process_spin_result's local wins
    psr_losses,      \* process_spin_result's local losses
    delay_left,      \* iterations of `for _ in range(delay)` not yet started
    result,          \* the dict perform_spins returns
    spins_input,     \* what the UI yields to parse_remaining_spins
    outcomes,        \* history: the classified outcome of every processed spin
    shown_prize,     \* history: what the prize element showed at the latest Win
    observed,        \* history: check points of perform_spins that saw the event set
    cause,           \* history: why the loop of perform_spins was left
    spin_clicks,     \* history: number of SPIN NOW clicks issued
    again_clicks,    \* history: number of Spin Again clicks issued
    ct_log,          \* history: the steps of the latest confirm_transaction call
    seen_headings,   \* history: which headings the latest classification saw
    report,          \* what main logs about the run (lines 602-655)
    fault,           \* history: the latest exception caught and what its handler did
    nav_call,        \* which call of navigate_to_monad_spin (main, lines 600, 621)
    nav_result,      \* what navigate_to_monad_spin returned
    context,         \* main.context is set: the browser context was created
    teardown         \* history: safe_close_context was called

vars == <<pc, shutdown_event, total_spins, it_next, spin_iteration, wins, losses,
          total_winnings, psr_wins, psr_losses, delay_left, result, spins_input,
          outcomes, shown_prize, observed, cause, spin_clicks, again_clicks, ct_log,
          seen_headings, report, fault, nav_call, nav_result, context, teardown>>

-----------------------------------------------------------------------------
(* Bounds of the model and constants of the program *)

MaxSpins == 3

MaxHeadingCount == 2

MaxTextLen == 3

MinDelay == 5

MaxDelay == 15

FallbackSpins == 3000

-----------------------------------------------------------------------------
(* Characters and character classes of Python's re *)

DigitChars == <<"0", "1", "2", "3", "4", "5", "6", "7", "8", "9">>

(* \d *)
DigitSet == {DigitChars[n] : n \in 1..10}

DigitVal(c) == (CHOOSE n \in 1..10 : DigitChars[n] = c) - 1

(* \s *)
SpaceSet == {" ", "\t", "\n"}

Letters == {"A", "B", "C", "E", "H", "J", "K", "O", "P", "T", "W",
            "a", "e", "g", "i", "m", "n", "p", "s", "S", "R"}

(* \w *)
WordSet == DigitSet \cup Letters \cup {"_"}

(* [\d.] *)
AmountSet == DigitSet \cup {"."}

Max(S) == CHOOSE x \in S : \A y \in S : y <= x

Min(S) == CHOOSE x \in S : \A y \in S : x <= y

(* The end of the greedy run of characters of a class that starts at s
   (s - 1 when text[s] is not of the class). *)
RunEnd(text, s, Class) ==
    LET ends == {e \in s..Len(text) : \A k \in s..e : text[k] \in Class}
    IN  IF ends = {} THEN s - 1 ELSE Max(ends)

RECURSIVE DigitsValue(_)
(* int() of a string of decimal digits *)
DigitsValue(ds) ==
    IF ds = <<>> THEN 0
    ELSE DigitsValue(SubSeq(ds, 1, Len(ds) - 1)) * 10 + DigitVal(ds[Len(ds)])

(* re.search(r'\d+', text): the leftmost, greedy run of digits *)
SearchDigits(text) ==
    LET starts == {s \in 1..Len(text) : text[s] \in DigitSet}
    IN  IF starts = {} THEN [ok |-> FALSE]
        ELSE LET s == Min(starts)
             IN  [ok |-> TRUE, g |-> SubSeq(text, s, RunEnd(text, s, DigitSet))]

-----------------------------------------------------------------------------
(* Exact decimals *)

RECURSIVE DecNorm(_)
DecNorm(d) ==
    IF d.m = 0 THEN [m |-> 0, e |-> 0]
    ELSE IF d.e > 0 /\ d.m % 10 = 0 THEN DecNorm([m |-> d.m \div 10, e |-> d.e - 1])
    ELSE d

DecAdd(a, b) ==
    LET e == IF a.e >= b.e THEN a.e ELSE b.e
    IN  DecNorm([m |-> a.m * 10^(e - a.e) + b.m * 10^(e - b.e), e |-> e])

Dec(m, e) == DecNorm([m |-> m, e |-> e])

-----------------------------------------------------------------------------
(* Prize parsing: process_spin_result, lines 371-394 *)

NoPrize == [ok |-> FALSE]

(* The match of r'([\d.]+)\s+(\w+)' that starts at s.  Each group is greedy;
   the three classes [\d.], \s and the first character after them exclude one
   another, so backtracking to a shorter group never yields a match the
   greedy one misses. *)
MatchPrizeAt(text, s) ==
    LET e1 == RunEnd(text, s, AmountSet)
        e2 == RunEnd(text, e1 + 1, SpaceSet)
        e3 == RunEnd(text, e2 + 1, WordSet)
    IN  IF e1 >= s /\ e2 > e1 /\ e3 > e2
        THEN [ok |-> TRUE, g1 |-> SubSeq(text, s, e1), g2 |-> SubSeq(text, e2 + 1, e3)]
        ELSE [ok |-> FALSE]

(* re.search(r'([\d.]+)\s+(\w+)', text): the leftmost match *)
SearchPrize(text) ==
    LET starts == {s \in 1..Len(text) : MatchPrizeAt(text, s).ok}
    IN  IF starts = {} THEN [ok |-> FALSE] ELSE MatchPrizeAt(text, Min(starts))

(* float(g) for g made of digits and dots: a ValueError (ok = FALSE) unless
   g has at least one digit and at most one dot *)
ParseFloat(g) ==
    LET dots   == {i \in 1..Len(g) : g[i] = "."}
        digits == SelectSeq(g, LAMBDA c : c \in DigitSet)
    IN  IF Cardinality(dots) > 1 \/ digits = <<>>
        THEN [ok |-> FALSE]
        ELSE [ok |-> TRUE,
              val |-> Dec(DigitsValue(digits),
                          IF dots = {} THEN 0 ELSE Len(g) - Min(dots))]

(* What the try block of lines 371-394 extracts from the prize element:
   nothing when the element is absent (count() == 0), when count() or
   text_content() raises, when the text is None (re.search raises TypeError),
   when the pattern does not match or when float() raises. *)
ExtractPrize(prize) ==
    IF prize.kind # "text" THEN NoPrize
    ELSE LET m == SearchPrize(prize.text)
         IN  IF ~m.ok THEN NoPrize
             ELSE LET f == ParseFloat(m.g1)
                  IN  IF ~f.ok THEN NoPrize
                      ELSE [ok |-> TRUE, amount |-> f.val, currency |-> m.g2]

EmptyLedger == [c \in {} |-> Dec(0, 0)]

(* Mutation of LedgerAdd: a later win overwrites the currency's total *)
LedgerAdd_Overwrite(ledger, currency, amount) ==
    (currency :> amount) @@ ledger

(* lines 384-387 *)
LedgerAdd(ledger, currency, amount) ==
    IF currency \in DOMAIN ledger
    THEN [ledger EXCEPT ![currency] = DecAdd(@, amount)]
    ELSE (currency :> amount) @@ ledger

-----------------------------------------------------------------------------
(* Final statistics: perform_spins, lines 499-516 *)

(* Mutation of TotalSpinsCompleted: the guard for an empty cycle is missing *)
TotalSpinsCompleted_NoGuard(iteration, w, l) ==
    iteration + 1

(* Mutation of TotalSpinsCompleted: the loop index is taken for the count *)
TotalSpinsCompleted_LoopIndex(iteration, w, l) ==
    iteration

(* line 500 *)
TotalSpinsCompleted(iteration, w, l) ==
    IF iteration > 0 \/ w + l > 0 THEN iteration + 1 ELSE 0

(* Mutation of WinRate: the ratio is not scaled to a percentage *)
WinRate_Ratio(w, l) ==
    IF w + l > 0 THEN [num |-> w, den |-> w + l] ELSE [num |-> 0, den |-> 1]

(* line 501: the rational num / den *)
WinRate(w, l) ==
    IF w + l > 0 THEN [num |-> w * 100, den |-> w + l] ELSE [num |-> 0, den |-> 1]

Statistics(iteration, w, l, ledger) ==
    [total_spins    |-> TotalSpinsCompleted(iteration, w, l),
     wins           |-> w,
     losses         |-> l,
     win_rate       |-> WinRate(w, l),
     total_winnings |-> ledger]

NoResult == [returned |-> FALSE]

(* No classification since perform_spins last moved on *)
NotClassified == [seen |-> FALSE]

(* lines 363-364 and 366, 399: what the two count() calls mean to the
   classification *)
Headings(congratulations_count, no_win_count) ==
    [seen |-> TRUE, win |-> congratulations_count > 0, loss |-> no_win_count > 0]

(* Mutation of OutcomeKind: the no-win heading is looked at first *)
OutcomeKind_LossFirst(congratulations_count, no_win_count) ==
    IF no_win_count > 0 THEN "Loss"
    ELSE IF congratulations_count > 0 THEN "Win"
    ELSE "Indeterminate"

(* lines 366, 399 and 402: the if / elif / else of process_spin_result *)
OutcomeKind(congratulations_count, no_win_count) ==
    IF congratulations_count > 0 THEN "Win"
    ELSE IF no_win_count > 0 THEN "Loss"
    ELSE "Indeterminate"

(* No exception caught so far *)
NoFault == [kind |-> "none"]

-----------------------------------------------------------------------------
(* What the UI can show *)

HeadingCounts == 0..MaxHeadingCount

PrizeTexts ==
    { <<"0", ".", "0", "0", "0", "5", "0", " ", "W", "B", "T", "C">>,
      <<"0", ".", "0", "0", "0", "1", "0", " ", "W", "B", "T", "C">>,
      <<"0", ".", "1", " ", "E", "T", "H">>,
      <<"1", ".", "2", ".", "3", " ", "E", "T", "H">>,
      <<"J", "A", "C", "K", "P", "O", "T">> }

(* The prize element '.text-yellow-300': absent, failing to answer, without
   text, or showing a text *)
PrizeInputs ==
    {[kind |-> "absent"], [kind |-> "raises"], [kind |-> "none"]}
        \cup {[kind |-> "text", text |-> t] : t \in PrizeTexts}

(* PlaywrightError (with its subclasses TimeoutError and TargetClosedError)
   or any other Exception *)
ErrorKinds == {"PlaywrightError", "Exception"}

(* The awaits of navigate_to_monad_spin (lines 99, 105, 112, 119, 126,
   130-131, 138) *)
NavPoints ==
    {"nav_goto", "nav_load", "nav_miniapps", "nav_view_all", "nav_locate",
     "nav_launch", "nav_iframe"}

(* The awaits of switch_to_monad_testnet (lines 169, 175-178), of close_modal
   (lines 197, 203-206) and of parse_remaining_spins (line 230) *)
SetupPoints == {"sw_wait", "sw_click", "cm_wait", "cm_click", "parse"}

(* The awaits of the spin cycle *)
CyclePoints ==
    {"spin_wait", "spin_click", "spin_settle", "classify", "ct_attach", "ct_cue",
     "ct_method1", "ct_method2", "ct_method3", "ct_detach", "again_wait",
     "again_click", "again_settle", "delay_sleep"}

(* The awaits of main itself: launch_persistent_context (line 590),
   context.new_page (line 595), and context.close inside safe_close_context
   (line 528) *)
MainPoints == {"launch_context", "new_page", "main_finally"}

(* The points where the signal handler can run *)
AwaitPoints == NavPoints \cup SetupPoints \cup CyclePoints \cup MainPoints

-----------------------------------------------------------------------------
(* The spin cycle *)

(* perform_spins, lines 428-433: the state on entering the loop.  main calls
   perform_spins right after seeing the event unset (lines 634-638). *)
Init ==
    /\ pc = "loop_top"
    /\ shutdown_event = FALSE
    /\ total_spins \in 0..MaxSpins
    /\ it_next = 0
    /\ spin_iteration = 0
    /\ wins = 0
    /\ losses = 0
    /\ total_winnings = EmptyLedger
    /\ psr_wins = 0
    /\ psr_losses = 0
    /\ delay_left = 0
    /\ result = NoResult
    /\ spins_input = [kind |-> "none"]
    /\ outcomes = <<>>
    /\ shown_prize = [kind |-> "absent"]
    /\ observed = {}
    /\ cause = "running"
    /\ spin_clicks = 0
    /\ again_clicks = 0
    /\ ct_log = <<>>
    /\ seen_headings = NotClassified
    /\ report = "none"
    /\ fault = NoFault
    /\ nav_call = 2
    /\ nav_result = "frame"
    /\ context = TRUE
    /\ teardown = FALSE

(* main.signal_handler, lines 550-553 *)
SetShutdown ==
    /\ pc \in AwaitPoints
    /\ shutdown_event' = TRUE
    /\ UNCHANGED <<pc, total_spins, it_next, spin_iteration, wins, losses,
                   total_winnings, psr_wins, psr_losses, delay_left, result,
                   spins_input, context, teardown,
                   again_clicks, ct_log, seen_headings, report, fault,
                   nav_call, nav_result, outcomes, shown_prize, observed, cause, spin_clicks>>

(* What a handler did with an exception of kind `kind`: the await that raised
   it, whether the event was set when it was caught, whether the handler
   called log_error, whether it raised the exception again *)
Caught(kind, reported, propagated) ==
    [kind |-> kind, at |-> pc, cancelled |-> shutdown_event,
     reported |-> reported, propagated |-> propagated]

(* Mutation of IterationError: an error is raised again unless the event is
   set, as the handler of lines 493-497 does *)
IterationError_Reraise(kind) ==
    /\ cause' = IF shutdown_event THEN "interrupted" ELSE "exception"
    /\ pc' = IF shutdown_event THEN "stats" ELSE "raised"
    /\ fault' = Caught(kind, ~shutdown_event, ~shutdown_event)
    /\ UNCHANGED <<shutdown_event, total_spins, it_next, spin_iteration, wins,
                   losses, total_winnings, psr_wins, psr_losses, delay_left, result,
                   spins_input, context, teardown, again_clicks, ct_log, seen_headings, report,
                   nav_call, nav_result, outcomes, shown_prize, observed, spin_clicks>>

(* Mutation of IterationError: the handlers log the error and go on with the
   next iteration instead of leaving the loop *)
IterationError_Continue(kind) ==
    /\ cause' = cause
    /\ pc' = "loop_top"
    /\ fault' = Caught(kind, TRUE, FALSE)
    /\ UNCHANGED <<shutdown_event, total_spins, it_next, spin_iteration, wins,
                   losses, total_winnings, psr_wins, psr_losses, delay_left, result,
                   spins_input, context, teardown, again_clicks, ct_log, seen_headings, report,
                   nav_call, nav_result, outcomes, shown_prize, observed, spin_clicks>>

(* The handlers of the iteration's try block, lines 481-491: both break.  The
   handler of PlaywrightError calls log_error only if the event is not set
   (lines 482-485); the handler of Exception calls it first (line 488). *)
IterationError(kind) ==
    /\ cause' = IF kind = "PlaywrightError"
                THEN (IF shutdown_event THEN "interrupted" ELSE "playwright_error")
                ELSE "exception"
    /\ pc' = "stats"
    /\ fault' = Caught(kind, kind = "PlaywrightError" => ~shutdown_event, FALSE)
    /\ ct_log' = <<>>
    /\ seen_headings' = NotClassified
    /\ UNCHANGED <<shutdown_event, total_spins, it_next, spin_iteration, wins,
                   losses, total_winnings, psr_wins, psr_losses, delay_left, result,
                   spins_input, context, teardown, again_clicks, report, nav_call, nav_result,
                   outcomes, shown_prize, observed, spin_clicks>>

(* Mutation of LoopTop: the check of the event at the top of the loop is
   missing *)
LoopTop_NoCheck ==
    /\ pc = "loop_top"
    /\ IF it_next < total_spins
       THEN /\ spin_iteration' = it_next
            /\ it_next' = it_next + 1
            /\ pc' = "spin_wait"
            /\ UNCHANGED <<observed, cause>>
       ELSE /\ cause' = "exhausted"
            /\ pc' = "stats"
            /\ UNCHANGED <<spin_iteration, it_next, observed>>
    /\ UNCHANGED <<shutdown_event, total_spins, wins, losses, total_winnings,
                   psr_wins, psr_losses, delay_left, result, spins_input, context, teardown,
                   again_clicks, ct_log, seen_headings, report, fault,
                   nav_call, nav_result, outcomes, shown_prize, spin_clicks>>

(* lines 434-440: the for statement takes the next index, then the check *)
LoopTop ==
    /\ pc = "loop_top"
    /\ IF it_next < total_spins
       THEN /\ spin_iteration' = it_next
            /\ it_next' = it_next + 1
            /\ IF shutdown_event
               THEN /\ observed' = observed \cup {"top"}
                    /\ cause' = "shutdown_top"
                    /\ pc' = "stats"
               ELSE /\ pc' = "spin_wait"
                    /\ UNCHANGED <<observed, cause>>
       ELSE /\ cause' = "exhausted"
            /\ pc' = "stats"
            /\ UNCHANGED <<spin_iteration, it_next, observed>>
    /\ UNCHANGED <<shutdown_event, total_spins, wins, losses, total_winnings,
                   psr_wins, psr_losses, delay_left, result, spins_input, context, teardown,
                   again_clicks, ct_log, seen_headings, report, fault,
                   nav_call, nav_result, outcomes, shown_prize, spin_clicks>>

(* line 445: spin_button.wait_for(state='visible') *)
SpinWaitFor ==
    /\ pc = "spin_wait"
    /\ \/ /\ pc' = "spin_click"
          /\ UNCHANGED <<shutdown_event, total_spins, it_next, spin_iteration, wins,
                         losses, total_winnings, psr_wins, psr_losses, delay_left,
                         result, spins_input, context, teardown,
                         again_clicks, ct_log, seen_headings, report, fault,
                         nav_call, nav_result, outcomes, shown_prize, observed, cause, spin_clicks>>
       \/ \E kind \in ErrorKinds : IterationError(kind)

(* lines 446-447: spin_button.click() *)
SpinClick ==
    /\ pc = "spin_click"
    /\ \/ /\ spin_clicks' = spin_clicks + 1
          /\ pc' = "spin_settle"
          /\ UNCHANGED <<shutdown_event, total_spins, it_next, spin_iteration, wins,
                         losses, total_winnings, psr_wins, psr_losses, delay_left,
                         result, spins_input, context, teardown,
                         again_clicks, ct_log, seen_headings, report, fault,
                         nav_call, nav_result, outcomes, shown_prize, observed, cause>>
       \/ \E kind \in ErrorKinds : IterationError(kind)

(* Mutation of SpinSettle: the check of line 451 leaves the loop instead of
   only logging, so the spin already clicked is never classified *)
SpinSettle_BreakOnShutdown ==
    /\ pc = "spin_settle"
    /\ \/ /\ observed' = IF shutdown_event THEN observed \cup {"during_spin"}
                         ELSE observed
          /\ psr_wins' = wins
          /\ psr_losses' = losses
          /\ pc' = IF shutdown_event THEN "stats" ELSE "classify"
          /\ cause' = IF shutdown_event THEN "shutdown_after_result" ELSE cause
          /\ UNCHANGED <<shutdown_event, total_spins, it_next, spin_iteration, wins,
                         losses, total_winnings, delay_left, result, spins_input, context, teardown,
                         again_clicks, ct_log, seen_headings, report, fault,
                         nav_call, nav_result, outcomes, shown_prize, spin_clicks>>
       \/ \E kind \in ErrorKinds : IterationError(kind)

(* lines 448-455: the settle wait, the check that only logs, and the call of
   process_spin_result, which copies wins and losses into its parameters *)
SpinSettle ==
    /\ pc = "spin_settle"
    /\ \/ /\ observed' = IF shutdown_event THEN observed \cup {"during_spin"}
                         ELSE observed
          /\ psr_wins' = wins
          /\ psr_losses' = losses
          /\ pc' = "classify"
          /\ UNCHANGED <<shutdown_event, total_spins, it_next, spin_iteration, wins,
                         losses, total_winnings, delay_left, result, spins_input, context, teardown,
                         again_clicks, ct_log, seen_headings, report, fault,
                         nav_call, nav_result, outcomes, shown_prize, cause, spin_clicks>>
       \/ \E kind \in ErrorKinds : IterationError(kind)

(* lines 405 and 455-460: process_spin_result returns (w, l), perform_spins
   assigns them and checks the event before the continue step *)
AfterProcess(w, l) ==
    /\ wins' = w
    /\ losses' = l
    /\ IF shutdown_event
       THEN /\ observed' = observed \cup {"after_result"}
            /\ cause' = "shutdown_after_result"
            /\ pc' = "stats"
       ELSE /\ pc' = "again_wait"
            /\ UNCHANGED <<observed, cause>>

(* process_spin_result, lines 358-405, up to the first wait of
   confirm_transaction (lines 256-257) *)
Classify(prizes) ==
    /\ pc = "classify"
    /\ \/ \E congratulations_count \in HeadingCounts, no_win_count \in HeadingCounts,
             prize \in prizes :
            IF OutcomeKind(congratulations_count, no_win_count) = "Win"
            THEN LET p == ExtractPrize(prize)
                 IN  /\ psr_wins' = psr_wins + 1
                     /\ total_winnings' =
                            IF p.ok THEN LedgerAdd(total_winnings, p.currency, p.amount)
                            ELSE total_winnings
                     /\ outcomes' = Append(outcomes, [kind |-> "Win", prize |-> p])
                     /\ shown_prize' = prize
                     /\ IF shutdown_event
                        THEN AfterProcess(psr_wins + 1, psr_losses)
                        ELSE /\ pc' = "ct_attach"
                             /\ UNCHANGED <<wins, losses, observed, cause>>
                     /\ ct_log' = <<>>
                     /\ seen_headings' = Headings(congratulations_count, no_win_count)
                     /\ UNCHANGED <<shutdown_event, total_spins, it_next,
                                    spin_iteration, psr_losses, delay_left, result,
                                    spins_input, context, teardown, again_clicks, report, fault,
                                    nav_call, nav_result, spin_clicks>>
            ELSE IF OutcomeKind(congratulations_count, no_win_count) = "Loss"
            THEN /\ psr_losses' = psr_losses + 1
                 /\ outcomes' = Append(outcomes, [kind |-> "Loss"])
                 /\ AfterProcess(psr_wins, psr_losses + 1)
                 /\ ct_log' = <<>>
                 /\ seen_headings' = Headings(congratulations_count, no_win_count)
                 /\ UNCHANGED <<shutdown_event, total_spins, it_next, spin_iteration,
                                total_winnings, psr_wins, delay_left, result,
                                spins_input, context, teardown, again_clicks, report, fault,
                                nav_call, nav_result, shown_prize, spin_clicks>>
            ELSE /\ outcomes' = Append(outcomes, [kind |-> "Indeterminate"])
                 /\ AfterProcess(psr_wins, psr_losses)
                 /\ ct_log' = <<>>
                 /\ seen_headings' = Headings(congratulations_count, no_win_count)
                 /\ UNCHANGED <<shutdown_event, total_spins, it_next, spin_iteration,
                                total_winnings, psr_wins, psr_losses, delay_left,
                                result, spins_input, context, teardown, again_clicks, report, fault,
                                nav_call, nav_result, shown_prize, spin_clicks>>
       \/ \E kind \in ErrorKinds : IterationError(kind)

(* confirm_transaction returns after the step `event` (it never raises: lines
   331-333 catch every Exception), process_spin_result returns its local
   counters *)
CtReturn(event) ==
    /\ AfterProcess(psr_wins, psr_losses)
    /\ ct_log' = Append(ct_log, event)
    /\ UNCHANGED <<shutdown_event, total_spins, it_next, spin_iteration,
                   total_winnings, psr_wins, psr_losses, delay_left, result,
                   spins_input, context, teardown, again_clicks, seen_headings, report, fault,
                   nav_call, nav_result, outcomes, shown_prize, spin_clicks>>

(* confirm_transaction goes on to the await `label` after the step `event` *)
CtStep(label, event) ==
    /\ pc' = label
    /\ ct_log' = Append(ct_log, event)
    /\ UNCHANGED <<shutdown_event, total_spins, it_next, spin_iteration, wins, losses,
                   total_winnings, psr_wins, psr_losses, delay_left, result,
                   spins_input, context, teardown, again_clicks, seen_headings, report, fault,
                   nav_call, nav_result, outcomes, shown_prize, observed, cause,
                   spin_clicks>>

(* The coroutine goes on to its next await `label` *)
Goto(label) ==
    /\ pc' = label
    /\ UNCHANGED <<shutdown_event, total_spins, it_next, spin_iteration, wins, losses,
                   total_winnings, psr_wins, psr_losses, delay_left, result,
                   spins_input, context, teardown, again_clicks, ct_log, seen_headings, report, fault,
                   nav_call, nav_result, outcomes, shown_prize, observed, cause,
                   spin_clicks>>

(* Mutation of CtAttach: a wallet frame that never attaches is ignored and
   the Confirm strategies are tried anyway *)
CtAttach_IgnoreFailure ==
    /\ pc = "ct_attach"
    /\ \/ IF shutdown_event THEN CtReturn("attached") ELSE CtStep("ct_cue", "attached")
       \/ CtStep("ct_method1", "attach_failed")

(* lines 259-275 and 331-333: the wallet frame attaches (then the check of
   line 273), or the wait or the frame lookup fails *)
CtAttach ==
    /\ pc = "ct_attach"
    /\ \/ IF shutdown_event THEN CtReturn("attached") ELSE CtStep("ct_cue", "attached")
       \/ CtReturn("attach_failed")

(* lines 277-285: the cue wait; its failure is swallowed at line 281 *)
CtCue ==
    /\ pc = "ct_cue"
    /\ IF shutdown_event THEN CtReturn("cue_waited") ELSE CtStep("ct_method1", "cue_waited")

(* Mutation of CtMethod1: the second strategy is tried even after the first
   one clicked *)
CtMethod1_TryNextAnyway ==
    /\ pc = "ct_method1"
    /\ \/ CtStep("ct_method2", "click1")
       \/ CtStep("ct_method2", "fail1")

(* lines 292-297: text="Confirm" *)
CtMethod1 ==
    /\ pc = "ct_method1"
    /\ \/ CtStep("ct_detach", "click1")
       \/ CtStep("ct_method2", "fail1")

(* lines 298-303: button:has-text("Confirm") *)
CtMethod2 ==
    /\ pc = "ct_method2"
    /\ \/ CtStep("ct_detach", "click2")
       \/ CtStep("ct_method3", "fail2")

(* lines 304-316: [role="button"]:has-text("Confirm") *)
CtMethod3 ==
    /\ pc = "ct_method3"
    /\ \/ CtStep("ct_detach", "click3")
       \/ CtReturn("fail3")

(* lines 318-333: the wait for the modal to close, whatever its outcome *)
CtDetach ==
    /\ pc = "ct_detach"
    /\ CtReturn("detach_waited")

(* line 464: spin_again.wait_for(state='visible') *)
AgainWaitFor ==
    /\ pc = "again_wait"
    /\ \/ /\ pc' = "again_click"
          /\ ct_log' = <<>>
          /\ seen_headings' = NotClassified
          /\ UNCHANGED <<shutdown_event, total_spins, it_next, spin_iteration, wins,
                         losses, total_winnings, psr_wins, psr_losses, delay_left,
                         result, spins_input, context, teardown, again_clicks, report, fault, nav_call,
                         nav_result, outcomes, shown_prize, observed, cause,
                         spin_clicks>>
       \/ \E kind \in ErrorKinds : IterationError(kind)

(* Mutation of AgainClick: the iteration goes on without clicking Spin Again *)
AgainClick_NoClick ==
    /\ pc = "again_click"
    /\ \/ Goto("again_settle")
       \/ \E kind \in ErrorKinds : IterationError(kind)

(* lines 465-466: spin_again.click() *)
AgainClick ==
    /\ pc = "again_click"
    /\ \/ /\ again_clicks' = again_clicks + 1
          /\ pc' = "again_settle"
          /\ UNCHANGED <<shutdown_event, total_spins, it_next, spin_iteration, wins,
                         losses, total_winnings, psr_wins, psr_losses, delay_left,
                         result, spins_input, context, teardown, ct_log, seen_headings, report, fault,
                         nav_call, nav_result, outcomes, shown_prize, observed, cause,
                         spin_clicks>>
       \/ \E kind \in ErrorKinds : IterationError(kind)

(* lines 467-479: the settle wait, then the random delay is drawn and its
   first unit sleep started, unless the event is set *)
AgainSettle ==
    /\ pc = "again_settle"
    /\ \/ /\ IF shutdown_event
             THEN /\ observed' = observed \cup {"after_continue"}
                  /\ delay_left' = 0
                  /\ pc' = "loop_top"
             ELSE /\ \E delay \in MinDelay..MaxDelay : delay_left' = delay - 1
                  /\ pc' = "delay_sleep"
                  /\ UNCHANGED observed
          /\ UNCHANGED <<shutdown_event, total_spins, it_next, spin_iteration, wins,
                         losses, total_winnings, psr_wins, psr_losses, result,
                         spins_input, context, teardown,
                         again_clicks, ct_log, seen_headings, report, fault,
                         nav_call, nav_result, outcomes, shown_prize, cause, spin_clicks>>
       \/ \E kind \in ErrorKinds : IterationError(kind)

(* Mutation of DelaySleep: the loop of unit sleeps does not look at the
   event, so a delay once begun is slept to its end *)
DelaySleep_NoCheck ==
    /\ pc = "delay_sleep"
    /\ IF delay_left > 0
       THEN /\ delay_left' = delay_left - 1
            /\ pc' = "delay_sleep"
       ELSE /\ pc' = "loop_top"
            /\ UNCHANGED delay_left
    /\ UNCHANGED <<shutdown_event, total_spins, it_next, spin_iteration, wins, losses,
                   total_winnings, psr_wins, psr_losses, result, spins_input, context, teardown,
                   again_clicks, ct_log, seen_headings, report, fault, nav_call,
                   nav_result, outcomes, shown_prize, observed, cause, spin_clicks>>

(* Mutation of DelaySleep: the loop of unit sleeps never counts down, it
   sleeps until the event is set *)
DelaySleep_NoCountdown ==
    /\ pc = "delay_sleep"
    /\ IF shutdown_event
       THEN /\ observed' = observed \cup {"delay"}
            /\ delay_left' = 0
            /\ pc' = "loop_top"
       ELSE /\ pc' = "delay_sleep"
            /\ UNCHANGED <<delay_left, observed>>
    /\ UNCHANGED <<shutdown_event, total_spins, it_next, spin_iteration, wins, losses,
                   total_winnings, psr_wins, psr_losses, result, spins_input, context,
                   teardown, again_clicks, ct_log, seen_headings, report, fault,
                   nav_call, nav_result, outcomes, shown_prize, cause, spin_clicks>>

(* lines 475-479: a unit sleep ends; the next chunk checks the event *)
DelaySleep ==
    /\ pc = "delay_sleep"
    /\ IF delay_left > 0
       THEN IF shutdown_event
            THEN /\ observed' = observed \cup {"delay"}
                 /\ delay_left' = 0
                 /\ pc' = "loop_top"
            ELSE /\ delay_left' = delay_left - 1
                 /\ pc' = "delay_sleep"
                 /\ UNCHANGED observed
       ELSE /\ pc' = "loop_top"
            /\ UNCHANGED <<delay_left, observed>>
    /\ UNCHANGED <<shutdown_event, total_spins, it_next, spin_iteration, wins, losses,
                   total_winnings, psr_wins, psr_losses, result, spins_input, context, teardown,
                   again_clicks, ct_log, seen_headings, report, fault,
                   nav_call, nav_result, outcomes, shown_prize, cause, spin_clicks>>

(* lines 499-516 *)
FinalStatistics ==
    /\ pc = "stats"
    /\ result' = Statistics(spin_iteration, wins, losses, total_winnings)
    /\ pc' = "done"
    /\ UNCHANGED <<shutdown_event, total_spins, it_next, spin_iteration, wins, losses,
                   total_winnings, psr_wins, psr_losses, delay_left, spins_input, context, teardown,
                   again_clicks, ct_log, seen_headings, report, fault,
                   nav_call, nav_result, outcomes, shown_prize, observed, cause, spin_clicks>>

Next ==
    \/ SetShutdown
    \/ LoopTop
    \/ SpinWaitFor
    \/ SpinClick
    \/ SpinSettle
    \/ Classify(PrizeInputs)
    \/ CtAttach
    \/ CtCue
    \/ CtMethod1
    \/ CtMethod2
    \/ CtMethod3
    \/ CtDetach
    \/ AgainWaitFor
    \/ AgainClick
    \/ AgainSettle
    \/ DelaySleep
    \/ FinalStatistics

Spec == Init /\ [][Next]_vars

-----------------------------------------------------------------------------
(* The end-to-end scenario: a budget of 5 and the prizes 0.1 ETH and 0.2 ETH *)

E2EPrizeInputs ==
    { [kind |-> "text", text |-> <<"0", ".", "1", " ", "E", "T", "H">>],
      [kind |-> "text", text |-> <<"0", ".", "2", " ", "E", "T", "H">>] }

InitE2E ==
    /\ pc = "loop_top"
    /\ shutdown_event = FALSE
    /\ total_spins = 5
    /\ it_next = 0
    /\ spin_iteration = 0
    /\ wins = 0
    /\ losses = 0
    /\ total_winnings = EmptyLedger
    /\ psr_wins = 0
    /\ psr_losses = 0
    /\ delay_left = 0
    /\ result = NoResult
    /\ spins_input = [kind |-> "none"]
    /\ outcomes = <<>>
    /\ shown_prize = [kind |-> "absent"]
    /\ observed = {}
    /\ cause = "running"
    /\ spin_clicks = 0
    /\ again_clicks = 0
    /\ ct_log = <<>>
    /\ seen_headings = NotClassified
    /\ report = "none"
    /\ fault = NoFault
    /\ nav_call = 2
    /\ nav_result = "frame"
    /\ context = TRUE
    /\ teardown = FALSE

NextE2E ==
    \/ SetShutdown
    \/ LoopTop
    \/ SpinWaitFor
    \/ SpinClick
    \/ SpinSettle
    \/ Classify(E2EPrizeInputs)
    \/ CtAttach
    \/ CtCue
    \/ CtMethod1
    \/ CtMethod2
    \/ CtMethod3
    \/ CtDetach
    \/ AgainWaitFor
    \/ AgainClick
    \/ AgainSettle
    \/ DelaySleep
    \/ FinalStatistics

SpecE2E == InitE2E /\ [][NextE2E]_vars

-----------------------------------------------------------------------------
(* parse_remaining_spins, lines 214-245 *)

SpinsAlphabet == {"1", "4", "0", " ", "S"}

SpinsRemaining1423 ==
    <<"S", "p", "i", "n", "s", " ", "R", "e", "m", "a", "i", "n", "i", "n", "g",
      ":", " ", "1", "4", "2", "3">>

SpinsTexts ==
    UNION {[1..k -> SpinsAlphabet] : k \in 0..MaxTextLen} \cup {SpinsRemaining1423}

(* What locating the counter and reading its text_content() yields: an
   automation error, no text (None), or a text *)
SpinsInputs ==
    {[kind |-> "raises"], [kind |-> "none"]}
        \cup {[kind |-> "text", text |-> t] : t \in SpinsTexts}

(* Mutation of RemainingSpins: the handler of lines 243-245 is missing, so a
   failing locator or a None text leaves the function as an exception *)
RemainingSpins_NoHandler(input) ==
    IF input.kind # "text" THEN [raised |-> TRUE, value |-> 0]
    ELSE LET spins_match == SearchDigits(input.text)
         IN  IF spins_match.ok
             THEN [raised |-> FALSE, value |-> DigitsValue(spins_match.g)]
             ELSE [raised |-> FALSE, value |-> FallbackSpins]

(* lines 225-245: the value returned, or raised = TRUE if an exception left
   the function.  A failing locator (line 230) and a None text (re.search
   raises TypeError at line 233) both end in the handler of lines 243-245. *)
RemainingSpins(input) ==
    IF input.kind # "text" THEN [raised |-> FALSE, value |-> FallbackSpins]
    ELSE LET spins_match == SearchDigits(input.text)
         IN  IF spins_match.ok
             THEN [raised |-> FALSE, value |-> DigitsValue(spins_match.g)]
             ELSE [raised |-> FALSE, value |-> FallbackSpins]

InitParse ==
    /\ pc = "prs_call"
    /\ shutdown_event = FALSE
    /\ total_spins = 0
    /\ it_next = 0
    /\ spin_iteration = 0
    /\ wins = 0
    /\ losses = 0
    /\ total_winnings = EmptyLedger
    /\ psr_wins = 0
    /\ psr_losses = 0
    /\ delay_left = 0
    /\ result = NoResult
    /\ spins_input \in SpinsInputs
    /\ outcomes = <<>>
    /\ shown_prize = [kind |-> "absent"]
    /\ observed = {}
    /\ cause = "running"
    /\ spin_clicks = 0
    /\ again_clicks = 0
    /\ ct_log = <<>>
    /\ seen_headings = NotClassified
    /\ report = "none"
    /\ fault = NoFault
    /\ nav_call = 2
    /\ nav_result = "frame"
    /\ context = TRUE
    /\ teardown = FALSE

(* main, line 632: total_spins = await parse_remaining_spins(frame) *)
ParseRemainingSpins ==
    /\ pc = "prs_call"
    /\ LET r == RemainingSpins(spins_input)
       IN  IF r.raised
           THEN /\ pc' = "prs_raised"
                /\ UNCHANGED total_spins
           ELSE /\ pc' = "prs_returned"
                /\ total_spins' = r.value
    /\ UNCHANGED <<shutdown_event, it_next, spin_iteration, wins, losses,
                   total_winnings, psr_wins, psr_losses, delay_left, result,
                   spins_input, context, teardown,
                   again_clicks, ct_log, seen_headings, report, fault,
                   nav_call, nav_result, outcomes, shown_prize, observed, cause, spin_clicks>>

NextParse == ParseRemainingSpins

SpecParse == InitParse /\ [][NextParse]_vars

-----------------------------------------------------------------------------
(* main, lines 598-655: navigation, network switch, modal, second navigation,
   parsing of the budget, the spin cycle and the report *)

(* The counter texts whose budget the model can run to the end *)
MainSpinsInputs ==
    {[kind |-> "text", text |-> <<DigitChars[n + 1]>>] : n \in 0..MaxSpins}

(* main at p.chromium.launch_persistent_context (lines 585-590): the signal
   handlers are installed, context is None *)
InitMain ==
    /\ pc = "launch_context"
    /\ shutdown_event = FALSE
    /\ total_spins = 0
    /\ it_next = 0
    /\ spin_iteration = 0
    /\ wins = 0
    /\ losses = 0
    /\ total_winnings = EmptyLedger
    /\ psr_wins = 0
    /\ psr_losses = 0
    /\ delay_left = 0
    /\ result = NoResult
    /\ spins_input = [kind |-> "none"]
    /\ outcomes = <<>>
    /\ shown_prize = [kind |-> "absent"]
    /\ observed = {}
    /\ cause = "running"
    /\ spin_clicks = 0
    /\ again_clicks = 0
    /\ ct_log = <<>>
    /\ seen_headings = NotClassified
    /\ report = "none"
    /\ fault = NoFault
    /\ nav_call = 1
    /\ nav_result = "pending"
    /\ context = FALSE
    /\ teardown = FALSE

(* The handler of main's outer try, lines 662-667: an exception that leaves
   the `async with` block is logged, unless the event is set, and main
   returns.  The finally clause of lines 657-660 belongs to the inner try and
   does not run for it. *)
InitError(created) ==
    /\ pc' = "terminated"
    /\ context' = created
    /\ report' = IF shutdown_event THEN report ELSE "init_error"
    /\ UNCHANGED <<shutdown_event, total_spins, it_next, spin_iteration, wins, losses,
                   total_winnings, psr_wins, psr_losses, delay_left, result,
                   spins_input, teardown, again_clicks, ct_log, seen_headings, fault,
                   nav_call, nav_result, outcomes, shown_prize, observed, cause,
                   spin_clicks>>

(* lines 590-595: the browser context is created, or the launch fails *)
LaunchContext ==
    /\ pc = "launch_context"
    /\ \/ /\ pc' = "new_page"
          /\ context' = TRUE
          /\ UNCHANGED <<shutdown_event, total_spins, it_next, spin_iteration, wins,
                         losses, total_winnings, psr_wins, psr_losses, delay_left,
                         result, spins_input, teardown, again_clicks, ct_log,
                         seen_headings, report, fault, nav_call, nav_result, outcomes,
                         shown_prize, observed, cause, spin_clicks>>
       \/ InitError(FALSE)

(* lines 595-600: the page is created and navigate_to_monad_spin starts
   page.goto (line 99) without looking at the event, or new_page fails *)
NewPage ==
    /\ pc = "new_page"
    /\ \/ Goto("nav_goto")
       \/ InitError(TRUE)

(* A step of main outside the spin cycle: the next control point, the call
   of navigate_to_monad_spin it belongs to, what main has logged about the
   run, what the navigator returned, the exception caught *)
MainStep(label, call, rep, res, flt) ==
    /\ pc' = label
    /\ nav_call' = call
    /\ report' = rep
    /\ nav_result' = res
    /\ fault' = flt
    /\ UNCHANGED <<shutdown_event, total_spins, it_next, spin_iteration, wins, losses,
                   total_winnings, psr_wins, psr_losses, delay_left, result,
                   spins_input, context, teardown, again_clicks, ct_log, seen_headings, outcomes,
                   shown_prize, observed, cause, spin_clicks>>

(* main returns from inside its try block because the event is set (lines
   602-604, 609-610, 615-617, 623-624, 628-629, 634-635) *)
MainCancelled(res, flt) == MainStep("main_finally", nav_call, "cancelled", res, flt)

(* navigate_to_monad_spin sees the event set at one of its checks (lines 101,
   109, 116, 123, 135) and returns None; main returns (lines 602, 623) *)
NavReturnNone == MainCancelled("None", fault)

(* Mutation of NavError: the handler of automation errors logs the error and
   raises it again whether or not the event is set *)
NavError_AlwaysRaise(kind) ==
    MainStep("main_finally", nav_call,
             IF kind = "PlaywrightError" THEN "playwright_error" ELSE "fatal_error",
             "raised", Caught(kind, TRUE, TRUE))

(* The handlers of navigate_to_monad_spin, lines 144-152, and the handlers of
   main that catch what they raise, lines 647-655.  An automation error with
   the event set is logged with log_info and None is returned; anything else
   is logged with log_error and raised again. *)
NavError(kind) ==
    IF kind = "PlaywrightError" /\ shutdown_event
    THEN MainCancelled("None", Caught(kind, FALSE, FALSE))
    ELSE MainStep("main_finally", nav_call,
                  IF kind = "PlaywrightError" THEN "playwright_error" ELSE "fatal_error",
                  "raised", Caught(kind, TRUE, TRUE))

(* lines 99-105: page.goto ends; the check of line 101, then
   wait_for_load_state *)
NavOpenSite ==
    /\ pc = "nav_goto"
    /\ \/ IF shutdown_event THEN NavReturnNone ELSE Goto("nav_load")
       \/ \E kind \in ErrorKinds : NavError(kind)

(* lines 105-112: the page has loaded; the check of line 109, then the click
   on the catalog link *)
NavLoaded ==
    /\ pc = "nav_load"
    /\ \/ IF shutdown_event THEN NavReturnNone ELSE Goto("nav_miniapps")
       \/ \E kind \in ErrorKinds : NavError(kind)

(* lines 112-119: the catalog is open; the check of line 116, then the click
   on View All *)
NavMiniApps ==
    /\ pc = "nav_miniapps"
    /\ \/ IF shutdown_event THEN NavReturnNone ELSE Goto("nav_view_all")
       \/ \E kind \in ErrorKinds : NavError(kind)

(* lines 119-126: View All is clicked; the check of line 123, then the wait
   for the Monad Spin entry *)
NavViewAll ==
    /\ pc = "nav_view_all"
    /\ \/ IF shutdown_event THEN NavReturnNone ELSE Goto("nav_locate")
       \/ \E kind \in ErrorKinds : NavError(kind)

(* lines 126-131: the Monad Spin entry is there; the click on it and the 10 s
   wait follow with no check of the event *)
NavLocate ==
    /\ pc = "nav_locate"
    /\ \/ Goto("nav_launch")
       \/ \E kind \in ErrorKinds : NavError(kind)

(* lines 130-138: the app is launched; the check of line 135, then the wait
   for the iframe *)
NavLaunch ==
    /\ pc = "nav_launch"
    /\ \/ IF shutdown_event THEN NavReturnNone ELSE Goto("nav_iframe")
       \/ \E kind \in ErrorKinds : NavError(kind)

(* lines 138-142: the iframe is found and the frame returned; main checks
   the event (lines 602, 623) and calls switch_to_monad_testnet, whose own
   check (line 163) then passes *)
NavIframe ==
    /\ pc = "nav_iframe"
    /\ \/ IF shutdown_event
          THEN MainCancelled("frame", fault)
          ELSE MainStep("sw_wait", nav_call, report, "frame", fault)
       \/ \E kind \in ErrorKinds : NavError(kind)

(* switch_to_monad_testnet returns; main checks the event (lines 609, 628)
   and goes on with close_modal after the first navigation, with
   parse_remaining_spins after the second *)
SwReturn ==
    IF shutdown_event
    THEN MainCancelled(nav_result, fault)
    ELSE MainStep(IF nav_call = 1 THEN "cm_wait" ELSE "parse", nav_call, report,
                  nav_result, fault)

(* lines 169-175 and 179-181: the switch button is visible, or the wait fails
   and the handler swallows the exception (a missing button is the normal
   case: the handler calls log_step at most) *)
SwWaitFor ==
    /\ pc = "sw_wait"
    /\ \/ IF shutdown_event THEN SwReturn ELSE Goto("sw_click")
       \/ SwReturn

(* lines 175-181: the click and the 2 s sleep, whatever their outcome *)
SwClick ==
    /\ pc = "sw_click"
    /\ SwReturn

(* close_modal returns; main checks the event (line 615) and calls
   navigate_to_monad_spin again (line 621) *)
CmReturn(flt) ==
    IF shutdown_event
    THEN MainCancelled(nav_result, flt)
    ELSE MainStep("nav_goto", 2, report, "pending", flt)

(* The handler of close_modal, lines 208-211, and the handlers of main,
   lines 647-655: the exception is swallowed if the event is set, logged and
   raised again otherwise *)
CmError(kind) ==
    IF shutdown_event
    THEN CmReturn(Caught(kind, FALSE, FALSE))
    ELSE MainStep("main_finally", nav_call,
                  IF kind = "PlaywrightError" THEN "playwright_error" ELSE "fatal_error",
                  nav_result, Caught(kind, TRUE, TRUE))

(* lines 197-203: the close button is found or the wait fails *)
CmWaitFor ==
    /\ pc = "cm_wait"
    /\ \/ IF shutdown_event THEN CmReturn(fault) ELSE Goto("cm_click")
       \/ \E kind \in ErrorKinds : CmError(kind)

(* lines 203-207: the click and the 1 s wait *)
CmClick ==
    /\ pc = "cm_click"
    /\ \/ CmReturn(fault)
       \/ \E kind \in ErrorKinds : CmError(kind)

(* lines 632-638: parse_remaining_spins returns the budget; main checks the
   event and calls perform_spins *)
MainParse ==
    /\ pc = "parse"
    /\ \E input \in MainSpinsInputs :
          /\ spins_input' = input
          /\ total_spins' = RemainingSpins(input).value
    /\ pc' = IF shutdown_event THEN "main_finally" ELSE "loop_top"
    /\ report' = IF shutdown_event THEN "cancelled" ELSE report
    /\ UNCHANGED <<shutdown_event, it_next, spin_iteration, wins, losses,
                   total_winnings, psr_wins, psr_losses, delay_left, result,
                   again_clicks, ct_log, seen_headings, fault, nav_call, nav_result,
                   context, teardown, outcomes, shown_prize, observed, cause,
                   spin_clicks>>

(* lines 638-645: perform_spins has returned its statistics; main logs
   "interrupted" if the event is set and "completed successfully" otherwise *)
MainReport ==
    /\ pc = "done"
    /\ pc' = "main_finally"
    /\ report' = IF shutdown_event THEN "interrupted" ELSE "success"
    /\ UNCHANGED <<shutdown_event, total_spins, it_next, spin_iteration, wins, losses,
                   total_winnings, psr_wins, psr_losses, delay_left, result,
                   spins_input, context, teardown, again_clicks, ct_log, seen_headings, fault, nav_call,
                   nav_result, outcomes, shown_prize, observed, cause, spin_clicks>>

(* What awaiting asyncio.wait_for(context.close(), timeout=5.0) can end in
   (lines 528-539) *)
CloseOutcomes ==
    {"closed", "TimeoutError", "PlaywrightError", "Exception: Connection closed",
     "Exception"}

(* lines 657-660, 526-539 and 667: the finally clause of main's inner try has
   called safe_close_context, which waits for context.close(); every way the
   wait can end is handled inside safe_close_context, and main returns *)
SafeCloseContext ==
    /\ pc = "main_finally"
    /\ \E outcome \in CloseOutcomes : pc' = "terminated"
    /\ teardown' = TRUE
    /\ UNCHANGED <<shutdown_event, total_spins, it_next, spin_iteration, wins, losses,
                   total_winnings, psr_wins, psr_losses, delay_left, result,
                   spins_input, context, again_clicks, ct_log, seen_headings, report,
                   fault, nav_call, nav_result, outcomes, shown_prize, observed,
                   cause, spin_clicks>>

NextMain ==
    \/ SetShutdown
    \/ LaunchContext
    \/ NewPage
    \/ NavOpenSite
    \/ NavLoaded
    \/ NavMiniApps
    \/ NavViewAll
    \/ NavLocate
    \/ NavLaunch
    \/ NavIframe
    \/ SwWaitFor
    \/ SwClick
    \/ CmWaitFor
    \/ CmClick
    \/ MainParse
    \/ LoopTop
    \/ SpinWaitFor
    \/ SpinClick
    \/ SpinSettle
    \/ Classify(PrizeInputs)
    \/ CtAttach
    \/ CtCue
    \/ CtMethod1
    \/ CtMethod2
    \/ CtMethod3
    \/ CtDetach
    \/ AgainWaitFor
    \/ AgainClick
    \/ AgainSettle
    \/ DelaySleep
    \/ FinalStatistics
    \/ MainReport
    \/ SafeCloseContext

SpecMain == InitMain /\ [][NextMain]_vars

-----------------------------------------------------------------------------
(* perform_spins under the assumption that every bounded wait and every sleep
   returns: the coroutine is resumed whenever it is suspended *)

MaxLiveSpins == 2

InitLive ==
    /\ pc = "loop_top"
    /\ shutdown_event = FALSE
    /\ total_spins \in 0..MaxLiveSpins
    /\ it_next = 0
    /\ spin_iteration = 0
    /\ wins = 0
    /\ losses = 0
    /\ total_winnings = EmptyLedger
    /\ psr_wins = 0
    /\ psr_losses = 0
    /\ delay_left = 0
    /\ result = NoResult
    /\ spins_input = [kind |-> "none"]
    /\ outcomes = <<>>
    /\ shown_prize = [kind |-> "absent"]
    /\ observed = {}
    /\ cause = "running"
    /\ spin_clicks = 0
    /\ again_clicks = 0
    /\ ct_log = <<>>
    /\ seen_headings = NotClassified
    /\ report = "none"
    /\ fault = NoFault
    /\ nav_call = 2
    /\ nav_result = "frame"
    /\ context = TRUE
    /\ teardown = FALSE

(* The steps of the coroutine: every action but the signal handler *)
CycleStep ==
    \/ LoopTop
    \/ SpinWaitFor
    \/ SpinClick
    \/ SpinSettle
    \/ Classify(E2EPrizeInputs)
    \/ CtAttach
    \/ CtCue
    \/ CtMethod1
    \/ CtMethod2
    \/ CtMethod3
    \/ CtDetach
    \/ AgainWaitFor
    \/ AgainClick
    \/ AgainSettle
    \/ DelaySleep
    \/ FinalStatistics

NextLive ==
    \/ SetShutdown
    \/ CycleStep

SpecLive == InitLive /\ [][NextLive]_vars /\ WF_vars(CycleStep)

-----------------------------------------------------------------------------
(* Properties *)

(* The spins that were fully processed: clicked and classified *)
Processed == Len(outcomes)

CountKind(kind) == Cardinality({i \in 1..Len(outcomes) : outcomes[i].kind = kind})

ParsedWins == {i \in 1..Len(outcomes) : outcomes[i].kind = "Win" /\ outcomes[i].prize.ok}

RECURSIVE AmountSum(_)
AmountSum(I) ==
    IF I = {} THEN Dec(0, 0)
    ELSE LET i == CHOOSE i \in I : TRUE
         IN  DecAdd(outcomes[i].prize.amount, AmountSum(I \ {i}))

(* Per currency, the sum of the amounts of the wins whose prize was parsed *)
LedgerOfOutcomes ==
    [c \in {outcomes[i].prize.currency : i \in ParsedWins} |->
        AmountSum({i \in ParsedWins : outcomes[i].prize.currency = c})]

WBTC == <<"W", "B", "T", "C">>

ETH == <<"E", "T", "H">>

WinOf(amount, currency) ==
    [kind |-> "Win", prize |-> [ok |-> TRUE, amount |-> amount, currency |-> currency]]

(* C1: the statistics perform_spins returns satisfy
   wins + losses <= spins_completed <= N, whatever the budget N, the outcomes
   and the termination cause. *)
C1_CountersBounded ==
    pc = "done" =>
        /\ result.wins + result.losses <= result.total_spins
        /\ result.total_spins <= total_spins

C1_Witness ==
    /\ pc = "done"
    /\ cause = "playwright_error"
    /\ result.wins + result.losses = 1
    /\ result.total_spins = 2

(* C2: the returned spins_completed is 0 if and only if the cycle performed
   zero completed iterations. *)
C2_ZeroIffNoCompletedIteration ==
    pc = "done" => (result.total_spins = 0 <=> Processed = 0)

(* C3: the returned spins_completed equals the budget N only if the cycle ran
   all N iterations to completion (every one of them clicked and classified). *)
C3_BudgetOnlyIfAllIterationsRan ==
    (pc = "done" /\ result.total_spins = total_spins) => Processed = total_spins

ListedCheckPoints == {"top", "after_result", "after_continue", "delay"}

(* C4: once a check point of perform_spins (top of an iteration, after result
   processing, after the continue click, a delay-chunk boundary) has seen the
   shutdown event set, no SPIN NOW click is issued any more. *)
C4_NoSpinAfterObserved ==
    [][(observed \cap ListedCheckPoints # {}) => spin_clicks' = spin_clicks]_vars

C4_Witness ==
    /\ pc = "done"
    /\ "after_continue" \in observed
    /\ cause = "shutdown_top"
    /\ spin_clicks < total_spins

(* C5: when perform_spins stops because the top-of-loop check saw the
   shutdown event, the iteration that was never started is not counted: the
   returned spins_completed equals the number of fully processed iterations. *)
C5_UnstartedIterationNotCounted ==
    (pc = "done" /\ cause = "shutdown_top") => result.total_spins = Processed

(* C6: perform_spins returns its statistics on every termination cause (it
   never leaves by an exception), and the wins, losses and winnings returned
   are those of all the spins classified up to the termination. *)
C6_PartialProgressReported ==
    /\ pc # "raised"
    /\ cause # "running" => pc \in {"stats", "done"}
    /\ pc = "done" =>
        /\ result.wins = CountKind("Win")
        /\ result.losses = CountKind("Loss")
        /\ result.total_winnings = LedgerOfOutcomes

C6_Witness ==
    /\ pc = "done"
    /\ cause \in {"playwright_error", "exception"}
    /\ result.wins = 1
    /\ result.losses = 1
    /\ DOMAIN result.total_winnings # {}

(* C7 as stated: the returned win_rate is 0 when wins + losses = 0 and
   otherwise the ratio wins / (wins + losses), a value between 0 and 1. *)
C7_WinRateIsRatio ==
    pc = "done" =>
        LET w == result.wins
            l == result.losses
            r == result.win_rate
        IN  /\ w + l = 0 => r.num = 0
            /\ w + l > 0 => /\ r.num * (w + l) = w * r.den
                            /\ 0 <= r.num /\ r.num <= r.den

(* C7 amended: the returned win_rate is 0 when wins + losses = 0 and
   otherwise the percentage 100 * wins / (wins + losses), a value between 0
   and 100. *)
C7_WinRateIsPercentage ==
    pc = "done" =>
        LET w == result.wins
            l == result.losses
            r == result.win_rate
        IN  /\ r.den > 0
            /\ w + l = 0 => r.num = 0
            /\ w + l > 0 => /\ r.num * (w + l) = 100 * w * r.den
                            /\ 0 <= r.num /\ r.num <= 100 * r.den

C7_Witness ==
    /\ pc = "done"
    /\ result.wins = 2
    /\ result.losses = 1
    /\ result.win_rate.num * 3 = 200 * result.win_rate.den

E2EOutcomes ==
    << WinOf(Dec(1, 1), ETH), [kind |-> "Loss"], [kind |-> "Loss"],
       WinOf(Dec(2, 1), ETH), [kind |-> "Indeterminate"] >>

(* The end-to-end scenario has run: budget 5, no shutdown, no click failure,
   the five outcomes in order *)
E2ERan ==
    /\ pc = "done"
    /\ total_spins = 5
    /\ ~shutdown_event
    /\ cause = "exhausted"
    /\ outcomes = E2EOutcomes

(* C8 as stated: the scenario returns spins_completed = 5, wins = 2,
   losses = 2, win_rate = 0.5 and winnings {ETH: 0.3}. *)
C8_EndToEndRatio ==
    E2ERan =>
        /\ result.total_spins = 5
        /\ result.wins = 2
        /\ result.losses = 2
        /\ result.win_rate.num * 2 = result.win_rate.den
        /\ result.total_winnings = (ETH :> Dec(3, 1))

(* C8 amended: the scenario returns spins_completed = 5, wins = 2,
   losses = 2, win_rate = 50 (a percentage) and winnings {ETH: 0.3}. *)
C8_EndToEndPercentage ==
    E2ERan =>
        /\ result.total_spins = 5
        /\ result.wins = 2
        /\ result.losses = 2
        /\ result.win_rate.num = 50 * result.win_rate.den
        /\ result.total_winnings = (ETH :> Dec(3, 1))

C8_Witness == E2ERan /\ result.total_spins = 5

(* What each prize text of the model reads as: amount and currency *)
ReadsAs(text) ==
    CASE text = <<"0", ".", "0", "0", "0", "5", "0", " ", "W", "B", "T", "C">> ->
            [ok |-> TRUE, amount |-> [m |-> 5, e |-> 4], currency |-> WBTC]
      [] text = <<"0", ".", "0", "0", "0", "1", "0", " ", "W", "B", "T", "C">> ->
            [ok |-> TRUE, amount |-> [m |-> 1, e |-> 4], currency |-> WBTC]
      [] text = <<"0", ".", "1", " ", "E", "T", "H">> ->
            [ok |-> TRUE, amount |-> [m |-> 1, e |-> 1], currency |-> ETH]
      [] OTHER -> [ok |-> FALSE]

(* C9: the winnings ledger starts empty and at every point holds, per
   currency, the sum of the amounts of the wins whose prize text read as
   'amount currency'; losses, indeterminate outcomes and wins whose prize
   cannot be extracted leave it unchanged. *)
C9_LedgerIsSumOfParsedWins ==
    /\ total_winnings = LedgerOfOutcomes
    /\ outcomes = <<>> => total_winnings = EmptyLedger
    /\ (outcomes # <<>> /\ outcomes[Len(outcomes)].kind = "Win") =>
            outcomes[Len(outcomes)].prize =
                IF shown_prize.kind = "text" THEN ReadsAs(shown_prize.text)
                ELSE [ok |-> FALSE]
    /\ pc = "done" => result.total_winnings = total_winnings

C9_Witness ==
    /\ outcomes = << WinOf(Dec(5, 4), WBTC), [kind |-> "Loss"], WinOf(Dec(1, 4), WBTC) >>
    /\ total_winnings = (WBTC :> Dec(6, 4))
    /\ pc = "done"

RECURSIVE PlaceValueSum(_, _, _)
(* The number the digits text[i..j] write, by place value *)
PlaceValueSum(text, i, j) ==
    IF i > j THEN 0
    ELSE DigitVal(text[i]) * 10^(j - i) + PlaceValueSum(text, i + 1, j)

(* The integer of the first contiguous run of digits of the text shown, or
   the fallback when there is no text or no digit in it *)
FirstDigitRunValue(input) ==
    IF input.kind = "text" /\ \E i \in 1..Len(input.text) : input.text[i] \in DigitSet
    THEN LET t == input.text
             i == CHOOSE i \in 1..Len(t) :
                    /\ t[i] \in DigitSet
                    /\ \A k \in 1..(i - 1) : t[k] \notin DigitSet
             j == CHOOSE j \in i..Len(t) :
                    /\ \A k \in i..j : t[k] \in DigitSet
                    /\ j = Len(t) \/ t[j + 1] \notin DigitSet
         IN  PlaceValueSum(t, i, j)
    ELSE 3000

(* C10: parse_remaining_spins never fails its caller: it returns the integer
   of the first contiguous run of digits of the displayed text, and 3000 when
   the control cannot be read, the text is missing or has no digits. *)
C10_ParseNeverFails ==
    /\ pc # "prs_raised"
    /\ pc = "prs_returned" => total_spins = FirstDigitRunValue(spins_input)

C10_Witness ==
    /\ pc = "prs_returned"
    /\ spins_input = [kind |-> "text", text |-> SpinsRemaining1423]
    /\ total_spins = 1423

-----------------------------------------------------------------------------
(* The control points of confirm_transaction, and the points perform_spins is
   at once process_spin_result has returned *)

CtPoints == {"ct_attach", "ct_cue", "ct_method1", "ct_method2", "ct_method3", "ct_detach"}

ReturnedPoints == {"again_wait", "stats", "done"}

Folded == wins = CountKind("Win") /\ losses = CountKind("Loss")

LastOutcome == outcomes[Len(outcomes)]

(* C11: if the wallet frame never attaches, confirm_transaction returns to
   its caller without raising and without having attempted any Confirm
   click: the failed attach is the only step of the call. *)
C11_NoClickWhenFrameNeverAttaches ==
    (ct_log # <<>> /\ ct_log[1] = "attach_failed")
        => /\ ct_log = <<"attach_failed">>
           /\ pc \in ReturnedPoints
           /\ fault = NoFault

C11_Witness ==
    /\ ct_log = <<"attach_failed">>
    /\ pc = "again_wait"
    /\ LastOutcome.kind = "Win"

(* C12: within an iteration the steps come in the order SPIN NOW click,
   settle, classification, confirmation (only on a Win), Spin Again click,
   delay.  Spin Again is never clicked before the spin's outcome has been
   classified and counted, and SPIN NOW is never clicked a second time
   before the Spin Again click of the previous iteration. *)
C12_IterationOrder ==
    /\ again_clicks <= Len(outcomes)
    /\ Len(outcomes) <= spin_clicks
    /\ spin_clicks <= again_clicks + 1
    /\ pc \in {"spin_wait", "spin_click"} => spin_clicks = again_clicks
    /\ pc \in {"spin_settle", "classify"} =>
           spin_clicks = Len(outcomes) + 1 /\ again_clicks = Len(outcomes)
    /\ pc \in CtPoints =>
           /\ Len(outcomes) = spin_clicks
           /\ again_clicks = spin_clicks - 1
           /\ LastOutcome.kind = "Win"
    /\ pc \in {"again_wait", "again_click"} =>
           /\ Len(outcomes) = spin_clicks
           /\ again_clicks = spin_clicks - 1
           /\ Folded
    /\ pc \in {"again_settle", "delay_sleep"} =>
           /\ Len(outcomes) = spin_clicks
           /\ again_clicks = spin_clicks
           /\ Folded

C12_Witness ==
    /\ pc = "spin_settle"
    /\ again_clicks = 2
    /\ spin_clicks = 3
    /\ CountKind("Win") >= 1

InFlightPoints == {"spin_settle", "classify"} \cup CtPoints

(* C13: if the event is set after the SPIN NOW click and before the continue
   step, and no step of the iteration fails, the spin's outcome is still
   classified and folded into wins and losses, and the loop is left at the
   check before the continue step: Spin Again is not clicked and no new
   iteration begins. *)
C13_InFlightSpinIsFinished ==
    [][ /\ (shutdown_event /\ pc \in InFlightPoints /\ pc' \notin InFlightPoints
                /\ fault' = fault)
           => /\ pc' = "stats"
              /\ cause' = "shutdown_after_result"
              /\ Len(outcomes') = spin_clicks
              /\ wins' = CountKind("Win")'
              /\ losses' = CountKind("Loss")'
              /\ again_clicks' = spin_clicks - 1
        /\ cause = "shutdown_after_result"
           => /\ UNCHANGED <<spin_clicks, again_clicks, it_next, wins, losses, outcomes>>
              /\ pc' \in {"stats", "done"} ]_vars

C13_Witness ==
    /\ pc = "done"
    /\ cause = "shutdown_after_result"
    /\ "during_spin" \in observed
    /\ LastOutcome.kind = "Win"
    /\ result.wins = CountKind("Win")

ClickPoints == {"spin_wait", "spin_click", "again_wait", "again_click"}

(* C14: a failure of the SPIN NOW step or of the Spin Again step (waiting for
   the button or clicking it) ends the cycle: the failing step leaves wins
   and losses as they were, and afterwards there is no SPIN NOW click, no
   Spin Again click and no confirmation. *)
C14_ClickFailureStops ==
    [][ /\ (pc \in ClickPoints /\ fault' # fault)
           => /\ pc' = "stats"
              /\ UNCHANGED <<wins, losses, spin_clicks, again_clicks>>
        /\ (fault # NoFault /\ fault.at \in ClickPoints)
           => /\ UNCHANGED <<wins, losses, spin_clicks, again_clicks, outcomes>>
              /\ pc' \in {"stats", "done"} ]_vars

C14_Witness ==
    /\ pc = "done"
    /\ fault # NoFault
    /\ fault.at = "again_click"
    /\ ~fault.cancelled
    /\ wins = 1
    /\ losses = 1

StrategySteps == {"click1", "fail1", "click2", "fail2", "click3", "fail3"}

StrategyLog ==
    LET IsStrategyStep(e) == e \in StrategySteps
    IN  SelectSeq(ct_log, IsStrategyStep)

Range(seq) == {seq[i] : i \in 1..Len(seq)}

(* C16: the three Confirm strategies are tried in the fixed order 1, 2, 3;
   strategy k+1 is tried only if strategy k failed and none is tried after
   one clicked; if all three fail, confirm_transaction returns without
   raising and without waiting for the wallet frame to detach. *)
C16_StrategiesInOrder ==
    /\ StrategyLog \in {<<>>, <<"click1">>, <<"fail1">>, <<"fail1", "click2">>,
                        <<"fail1", "fail2">>, <<"fail1", "fail2", "click3">>,
                        <<"fail1", "fail2", "fail3">>}
    /\ (pc = "ct_detach" \/ "detach_waited" \in Range(ct_log))
           => Range(ct_log) \cap {"click1", "click2", "click3"} # {}
    /\ "fail3" \in Range(ct_log)
           => /\ ct_log[Len(ct_log)] = "fail3"
              /\ pc \in ReturnedPoints
              /\ fault = NoFault

C16_Witness ==
    /\ StrategyLog = <<"fail1", "fail2", "fail3">>
    /\ pc = "again_wait"

(* C17: every wait of confirm_transaction (attach, cue, the wait of each
   Confirm strategy, detach) is preceded by a check of the event, so no wait
   of confirm_transaction is started while the event is set. *)
C17_EveryWaitRechecksShutdown ==
    [][ (shutdown_event /\ pc' # pc) => pc' \notin CtPoints ]_vars

(* C18: the classification of a pair of heading counts is Win if the win
   heading is seen, Loss if only the no-win heading is seen, Indeterminate if
   neither is seen; a Win adds one to wins only, a Loss one to losses only,
   an Indeterminate result to neither; and the classification itself never
   ends the cycle (only the event, checked after it, does). *)
C18_ClassificationTable ==
    seen_headings.seen =>
        /\ LastOutcome.kind = IF seen_headings.win THEN "Win"
                              ELSE IF seen_headings.loss THEN "Loss"
                              ELSE "Indeterminate"
        /\ psr_wins = CountKind("Win")
        /\ psr_losses = CountKind("Loss")
        /\ pc \in CtPoints \cup ReturnedPoints
        /\ pc \in CtPoints => LastOutcome.kind = "Win"
        /\ pc \in ReturnedPoints => Folded
        /\ pc \in {"stats", "done"} => cause = "shutdown_after_result"

C18_Witness ==
    /\ pc = "again_wait"
    /\ seen_headings = [seen |-> TRUE, win |-> TRUE, loss |-> TRUE]
    /\ Len(outcomes) = 3
    /\ CountKind("Indeterminate") = 1
    /\ CountKind("Loss") = 1

(* C15: a failure of the SPIN NOW or Spin Again step while the event is not
   set is propagated to main: main sees the cycle as failed and does not
   report success. *)
C15_UiFailureNotReportedAsSuccess ==
    (pc = "main_finally" /\ fault # NoFault /\ fault.at \in ClickPoints
        /\ ~fault.cancelled)
        => report # "success"

ComponentPoints == NavPoints \cup CyclePoints

(* C19 as stated: whenever any failure, an automation error or any other
   exception, surfaces in the navigator or in the spin cycle while the event
   is set, it is not reported as an error and not propagated. *)
C19_AnyFailureDuringShutdownIsCancellation ==
    (fault # NoFault /\ fault.at \in ComponentPoints /\ fault.cancelled)
        => ~fault.reported /\ ~fault.propagated

(* C19, amended: whenever an automation error (PlaywrightError) surfaces in
   the navigator or in the spin cycle while the event is set, it is not
   logged as an error and not propagated: the navigator returns None and
   main returns, the spin cycle leaves its loop and returns its statistics.
   Any other exception is logged as an error even when the event is set, and
   the navigator raises it again, so that main reports a fatal error. *)
C19_AutomationErrorDuringShutdownIsCancellation ==
    (fault # NoFault /\ fault.at \in ComponentPoints /\ fault.cancelled)
        => IF fault.kind = "PlaywrightError"
           THEN /\ ~fault.reported
                /\ ~fault.propagated
                /\ fault.at \in NavPoints =>
                       nav_result = "None" /\ report = "cancelled"
                /\ fault.at \in CyclePoints =>
                       /\ cause = "interrupted"
                       /\ pc \in {"stats", "done", "main_finally", "terminated"}
                       /\ pc # "stats" => result # NoResult
                       /\ report \in {"none", "interrupted"}
           ELSE /\ fault.reported
                /\ fault.at \in NavPoints =>
                       fault.propagated /\ report = "fatal_error"
                /\ fault.at \in CyclePoints => ~fault.propagated

C19_Witness ==
    /\ pc = "main_finally"
    /\ fault # NoFault
    /\ fault.kind = "PlaywrightError"
    /\ fault.cancelled
    /\ fault.at = "again_click"
    /\ report = "interrupted"
    /\ result.wins = 1

(* C20: navigate_to_monad_spin checks the event before each of its steps
   (opening the site, opening the catalog, clicking View All, locating the
   app, launching the app, locating the frame), so no step of the navigator
   is started while the event is set. *)
C20_EveryNavStepChecksShutdown ==
    [][ (shutdown_event /\ pc' # pc) => pc' \notin NavPoints ]_vars

(* C21: the delay between iterations is an integer d in 5..15 slept as at most
   d unit sleeps, and the event is checked before every unit sleep: the
   first unit sleep is started only with the event unset and leaves d - 1
   more to go; a further unit sleep is started only with the event unset and
   uses up one of those left; and once the event is set, the unit sleep in
   progress is the last one, after which the delay is abandoned. *)
C21_DelayInUnitSleeps ==
    [][ /\ (pc = "again_settle" /\ pc' = "delay_sleep")
           => /\ ~shutdown_event
              /\ delay_left' + 1 \in MinDelay..MaxDelay
        /\ (pc = "delay_sleep" /\ pc' = "delay_sleep" /\ delay_left' # delay_left)
           => /\ ~shutdown_event
              /\ delay_left > 0
              /\ delay_left' = delay_left - 1
        /\ (pc = "delay_sleep" /\ shutdown_event)
           => /\ pc' = "loop_top"
              /\ UNCHANGED <<spin_clicks, again_clicks, outcomes>>
        /\ pc' = "delay_sleep" => delay_left' \in 0..(MaxDelay - 1) ]_vars

C21_Witness ==
    /\ pc = "loop_top"
    /\ shutdown_event
    /\ observed = {"delay"}
    /\ again_clicks = 1

(* C22: on every exit path of main after the browser context has been
   created, safe_close_context is attempted before main returns, and no
   failure of the teardown is raised past main. *)
C22_TeardownOnEveryExit ==
    /\ pc # "main_raised"
    /\ (pc = "terminated" /\ context) => teardown

StopCauses ==
    {"exhausted", "shutdown_top", "shutdown_after_result", "interrupted",
     "playwright_error", "exception"}

(* C23: if every wait and sleep returns, perform_spins eventually returns its
   statistics; it never begins more than total_spins iterations and leaves
   the loop because the budget is exhausted, because a check point saw the
   event set, or because a step failed; and once the event is set it
   eventually stops and returns its statistics. *)
C23_PerformSpinsTerminates ==
    /\ <>(pc = "done" /\ result # NoResult)
    /\ [](it_next <= total_spins /\ spin_clicks <= total_spins)
    /\ [](pc \in {"stats", "done"} => cause \in StopCauses)
    /\ [](shutdown_event => <>(pc = "done" /\ result # NoResult))

C23_Witness ==
    /\ pc = "done"
    /\ result # NoResult
    /\ shutdown_event
    /\ cause = "shutdown_top"
    /\ observed = {"delay", "top"}
    /\ it_next = 2

=============================================================================
